---- MODULE Spec2Model ----
(***************************************************************************)
(* Model of src/utils/ipUtils.js: validateIp, getIpVersion,                *)
(* convertSubnetToCidr, validateSubnet, isSameSubnet and checkIpAndSubnet, *)
(* together with the parts of the ipaddr.js parser they call.              *)
(*                                                                         *)
(* A JavaScript string is a sequence of one-character strings over         *)
(* Alphabet; a JavaScript number is an integer.  Every operator below is   *)
(* defined for every string over Alphabet.  The absent result (null, or a  *)
(* thrown exception inside ipaddr.js) of an operator that returns a        *)
(* sequence is the empty sequence; null as a prefix length is NULL.        *)
(***************************************************************************)
EXTENDS Integers, Sequences, FiniteSets, TLC

VARIABLES op, ip1, ip2, subnet, hasMask, result, cidrOut

vars == <<op, ip1, ip2, subnet, hasMask, result, cidrOut>>

\* ------------------------------------------------------------ characters

DecDigits == {"0", "1", "2", "3", "4", "5", "6", "7", "8", "9"}

HexLetters == {"a", "b", "c", "d", "e", "f", "A", "B", "C", "D", "E", "F"}

HexDigits == DecDigits \cup HexLetters

Alphabet == HexDigits \cup {"x", ".", ":", "-", "+", " ", "/", "z"}

\* The value of a hexadecimal digit, in either case.
DigitVal(c) ==
    CASE c = "0" -> 0 [] c = "1" -> 1 [] c = "2" -> 2 [] c = "3" -> 3
      [] c = "4" -> 4 [] c = "5" -> 5 [] c = "6" -> 6 [] c = "7" -> 7
      [] c = "8" -> 8 [] c = "9" -> 9
      [] c \in {"a", "A"} -> 10 [] c \in {"b", "B"} -> 11
      [] c \in {"c", "C"} -> 12 [] c \in {"d", "D"} -> 13
      [] c \in {"e", "E"} -> 14 [] c \in {"f", "F"} -> 15

DigitChar(v) ==
    <<"0", "1", "2", "3", "4", "5", "6", "7", "8", "9",
      "a", "b", "c", "d", "e", "f">>[v + 1]

AllIn(s, set) == \A i \in 1..Len(s) : s[i] \in set

Count(s, c) == Cardinality({i \in 1..Len(s) : s[i] = c})

StartsWith(s, p) == Len(s) >= Len(p) /\ SubSeq(s, 1, Len(p)) = p

EndsWith(s, p) ==
    Len(s) >= Len(p) /\ SubSeq(s, Len(s) - Len(p) + 1, Len(s)) = p

\* String.prototype.split on a one-character separator.
RECURSIVE Split(_, _)
Split(s, sep) ==
    IF \A i \in 1..Len(s) : s[i] # sep
    THEN <<s>>
    ELSE LET Cut(k) ==
                 <<SubSeq(s, 1, k - 1)>> \o Split(SubSeq(s, k + 1, Len(s)), sep)
         IN Cut(CHOOSE i \in 1..Len(s) :
                    s[i] = sep /\ \A j \in 1..(i - 1) : s[j] # sep)

\* Array.prototype.join on a one-character separator.
RECURSIVE Join(_, _)
Join(parts, sep) ==
    IF Len(parts) = 0 THEN <<>>
    ELSE IF Len(parts) = 1 THEN parts[1]
    ELSE parts[1] \o <<sep>> \o Join(Tail(parts), sep)

\* String.prototype.trim, for the one whitespace character of Alphabet.
RECURSIVE TrimLeft(_)
TrimLeft(s) ==
    IF s # <<>> /\ Head(s) = " " THEN TrimLeft(Tail(s)) ELSE s

RECURSIVE TrimRight(_)
TrimRight(s) ==
    IF s # <<>> /\ s[Len(s)] = " "
    THEN TrimRight(SubSeq(s, 1, Len(s) - 1)) ELSE s

Trim(s) == TrimRight(TrimLeft(s))

\* ------------------------------------------------------------ numbers

\* parseInt(digits, base) of a string of digits of that base, as the four
\* low bytes of the value (most significant first) and a flag that is 1
\* when the value exceeds 0xffffffff.  Every use compares the value with a
\* limit of at most 0xffffffff, so the flag stands for "above the limit".
\* The loop keeps the value as two 16-bit halves hi and lo.
RECURSIVE AccumBytes(_, _, _, _, _)
AccumBytes(s, base, hi, lo, over) ==
    IF s = <<>>
    THEN <<hi \div 256, hi % 256, lo \div 256, lo % 256, over>>
    ELSE AccumBytes(
             Tail(s), base,
             (hi * base + (lo * base + DigitVal(Head(s))) \div 65536) % 65536,
             (lo * base + DigitVal(Head(s))) % 65536,
             IF \/ over = 1
                \/ hi * base + (lo * base + DigitVal(Head(s))) \div 65536
                      >= 65536
             THEN 1 ELSE 0)

ParseBytes(s, base) == AccumBytes(s, base, 0, 0, 0)

\* A value above every limit a 16-bit or smaller comparison uses.
Saturated == 65535 + 1

\* The value of ParseBytes as an integer, saturating above 0xffff.
SmallValue(b) ==
    IF b[5] = 1 \/ b[1] > 0 \/ b[2] > 0 THEN Saturated ELSE b[3] * 256 + b[4]

\* Number.prototype.toString of a natural number.
RECURSIVE NatToString(_)
NatToString(n) ==
    IF n < 10 THEN <<DigitChar(n)>>
    ELSE NatToString(n \div 10) \o <<DigitChar(n % 10)>>

\* String(n) of an integer.
IntToString(n) == IF n < 0 THEN <<"-">> \o NatToString(-n) ELSE NatToString(n)

\* Number.prototype.toString(16) of a natural number.
RECURSIVE NatToHex(_)
NatToHex(n) ==
    IF n < 16 THEN <<DigitChar(n)>>
    ELSE NatToHex(n \div 16) \o <<DigitChar(n % 16)>>

\* ------------------------------------------------------------ ipaddr.IPv4

\* ipv4Part: (0?\d+|0x[a-f0-9]+), case-insensitive.
IsHexPart(p) ==
    /\ Len(p) >= 3
    /\ p[1] = "0"
    /\ p[2] = "x"
    /\ AllIn(SubSeq(p, 3, Len(p)), HexDigits)

IsIpv4Part(p) == (Len(p) >= 1 /\ AllIn(p, DecDigits)) \/ IsHexPart(p)

\* parseIntAuto: hexadecimal with 0x, octal with a leading 0, else decimal;
\* <<>> when it throws (a leading 0 followed by a digit outside 0-7).
parseIntAuto(p) ==
    IF IsHexPart(p) THEN ParseBytes(SubSeq(p, 3, Len(p)), 16)
    ELSE IF Len(p) >= 2 /\ p[1] = "0" /\ p[2] \in DecDigits
    THEN IF AllIn(Tail(p), {"0", "1", "2", "3", "4", "5", "6", "7"})
         THEN ParseBytes(p, 8)
         ELSE <<>>
    ELSE ParseBytes(p, 10)

\* IPv4.parser followed by the IPv4 constructor's checks: the four octets,
\* or <<>> when the parser returns null or either of them throws.  The
\* forms are fourOctet, longValue, twoOctet and threeOctet; the last part
\* of the short forms fills the remaining octets.
IPv4_parser(s) ==
    LET Value(p) == IF IsIpv4Part(p) THEN parseIntAuto(p) ELSE <<>>
        InRange(v) == v # <<>> /\ v[5] = 0
        IsOctet(v) == InRange(v) /\ v[1] = 0 /\ v[2] = 0 /\ v[3] = 0
        FourOctet(a, b, c, d) ==
            IF IsOctet(a) /\ IsOctet(b) /\ IsOctet(c) /\ IsOctet(d)
            THEN <<a[4], b[4], c[4], d[4]>> ELSE <<>>
        LongValue(v) ==
            IF InRange(v) THEN <<v[1], v[2], v[3], v[4]>> ELSE <<>>
        TwoOctet(a, v) ==
            IF IsOctet(a) /\ InRange(v) /\ v[1] = 0
            THEN <<a[4], v[2], v[3], v[4]>> ELSE <<>>
        ThreeOctet(a, b, v) ==
            IF IsOctet(a) /\ IsOctet(b) /\ InRange(v) /\ v[1] = 0 /\ v[2] = 0
            THEN <<a[4], b[4], v[3], v[4]>> ELSE <<>>
        Parts(parts) ==
            IF Len(parts) = 4
            THEN FourOctet(Value(parts[1]), Value(parts[2]),
                           Value(parts[3]), Value(parts[4]))
            ELSE IF Len(parts) = 1 THEN LongValue(Value(parts[1]))
            ELSE IF Len(parts) = 2
            THEN TwoOctet(Value(parts[1]), Value(parts[2]))
            ELSE IF Len(parts) = 3
            THEN ThreeOctet(Value(parts[1]), Value(parts[2]), Value(parts[3]))
            ELSE <<>>
    IN Parts(Split(s, "."))

IPv4_isValid(s) == IPv4_parser(s) # <<>>

\* IPv4.isValidFourPartDecimal: valid, and /^(0|[1-9]\d*)(\.(0|[1-9]\d*)){3}$/.
IsPlainDecimal(p) ==
    /\ Len(p) >= 1
    /\ AllIn(p, DecDigits)
    /\ (p[1] = "0" => Len(p) = 1)

IPv4_isValidFourPartDecimal(s) ==
    LET Match(parts) ==
            Len(parts) = 4 /\ \A i \in 1..4 : IsPlainDecimal(parts[i])
    IN IPv4_isValid(s) /\ Match(Split(s, "."))

\* IPv4.prototype.toString: the octets joined by dots.
IPv4_toString(octets) ==
    Join([i \in 1..Len(octets) |-> NatToString(octets[i])], ".")

\* The zerotable of prefixLengthFromSubnetMask: the number of trailing zero
\* bits of an octet that is a run of ones followed by zeros, else -1.
ZeroTable(octet) ==
    CASE octet = 0 -> 8 [] octet = 128 -> 7 [] octet = 192 -> 6
      [] octet = 224 -> 5 [] octet = 240 -> 4 [] octet = 248 -> 3
      [] octet = 252 -> 2 [] octet = 254 -> 1 [] octet = 255 -> 0
      [] OTHER -> -1

\* The loop of prefixLengthFromSubnetMask from octet i down to octet 1;
\* the sum of the zeros, or -1 where the method returns null.
RECURSIVE MaskZeros(_, _, _)
MaskZeros(octets, i, stop) ==
    LET Sum(zeros, rest) == IF rest = -1 THEN -1 ELSE zeros + rest
        Step(zeros) ==
            IF zeros = -1 \/ (stop /\ zeros # 0) THEN -1
            ELSE Sum(zeros, MaskZeros(octets, i - 1, stop \/ zeros # 8))
    IN IF i = 0 THEN 0 ELSE Step(ZeroTable(octets[i]))

NULL == -1

\* IPv4.prototype.prefixLengthFromSubnetMask.
IPv4_prefixLengthFromSubnetMask(octets) ==
    LET Length(zeros) == IF zeros = -1 THEN NULL ELSE 32 - zeros
    IN Length(MaskZeros(octets, 4, FALSE))

Pow2(n) == CASE n = 0 -> 1 [] n = 1 -> 2 [] n = 2 -> 4 [] n = 3 -> 8
             [] n = 4 -> 16 [] n = 5 -> 32 [] n = 6 -> 64 [] n = 7 -> 128
             [] n = 8 -> 256 [] n = 9 -> 512 [] n = 10 -> 1024
             [] n = 11 -> 2048 [] n = 12 -> 4096 [] n = 13 -> 8192
             [] n = 14 -> 16384 [] n = 15 -> 32768 [] n = 16 -> 65536

\* a & b on naturals below 2^w.
RECURSIVE BitAnd(_, _, _)
BitAnd(a, b, w) ==
    IF w = 0 THEN 0
    ELSE 2 * BitAnd(a \div 2, b \div 2, w - 1) + (a % 2) * (b % 2)

\* a | b on naturals below 2^w.
BitOr(a, b, w) == a + b - BitAnd(a, b, w)

\* The octet of a subnet mask after filled full octets: the first bits
\* ones.
MaskOctet(bits) == (Pow2(bits) - 1) * Pow2(8 - bits)

\* IPv4.subnetMaskFromPrefixLength for a prefix in 0..32.
IPv4_subnetMaskFromPrefixLength(prefix) ==
    <<IF prefix >= 8 THEN 255 ELSE MaskOctet(prefix),
      IF prefix >= 16 THEN 255
      ELSE IF prefix >= 8 THEN MaskOctet(prefix - 8) ELSE 0,
      IF prefix >= 24 THEN 255
      ELSE IF prefix >= 16 THEN MaskOctet(prefix - 16) ELSE 0,
      IF prefix >= 32 THEN 255
      ELSE IF prefix >= 24 THEN MaskOctet(prefix - 24) ELSE 0>>

\* IPv4.parseCIDR: /^(.+)\/(\d+)$/ with a mask length in 0..32 and an
\* address IPv4.parse accepts; <<octets, maskLength>>, or <<>> when it throws.
IPv4_parseCIDR(s) ==
    LET Parsed(octets, maskLength) ==
            IF maskLength <= 32 /\ octets # <<>>
            THEN <<octets, maskLength>> ELSE <<>>
        Groups(addr, bits) ==
            IF Len(addr) >= 1 /\ Len(bits) >= 1 /\ AllIn(bits, DecDigits)
            THEN Parsed(IPv4_parser(addr), SmallValue(ParseBytes(bits, 10)))
            ELSE <<>>
        SplitAt(k) == Groups(SubSeq(s, 1, k - 1), SubSeq(s, k + 1, Len(s)))
        LastOf(slashes) ==
            IF slashes = {} THEN <<>>
            ELSE SplitAt(CHOOSE i \in slashes : \A j \in slashes : j <= i)
    IN LastOf({i \in 1..Len(s) : s[i] = "/"})

\* IPv4.networkAddressFromCIDR: octet-wise ip & mask.
IPv4_networkAddressFromCIDR(s) ==
    LET And(o, m) == <<BitAnd(o[1], m[1], 8), BitAnd(o[2], m[2], 8),
                       BitAnd(o[3], m[3], 8), BitAnd(o[4], m[4], 8)>>
        Network(cidr) ==
            IF cidr = <<>> THEN <<>>
            ELSE And(cidr[1], IPv4_subnetMaskFromPrefixLength(cidr[2]))
    IN Network(IPv4_parseCIDR(s))

\* IPv4.broadcastAddressFromCIDR: octet-wise ip | (mask ^ 255).
IPv4_broadcastAddressFromCIDR(s) ==
    LET Or(o, m) ==
            <<BitOr(o[1], 255 - m[1], 8), BitOr(o[2], 255 - m[2], 8),
              BitOr(o[3], 255 - m[3], 8), BitOr(o[4], 255 - m[4], 8)>>
        Broadcast(cidr) ==
            IF cidr = <<>> THEN <<>>
            ELSE Or(cidr[1], IPv4_subnetMaskFromPrefixLength(cidr[2]))
    IN Broadcast(IPv4_parseCIDR(s))

\* matchCIDR: compares the first cidrBits bits, part by part.
RECURSIVE matchCIDR(_, _, _, _, _)
matchCIDR(first, second, partSize, cidrBits, part) ==
    LET SameAfter(shift) ==
            first[part] \div Pow2(shift) = second[part] \div Pow2(shift)
    IN IF cidrBits <= 0 THEN TRUE
       ELSE IF ~SameAfter(IF partSize - cidrBits < 0 THEN 0
                          ELSE partSize - cidrBits)
       THEN FALSE
       ELSE matchCIDR(first, second, partSize, cidrBits - partSize, part + 1)

\* ------------------------------------------------------------ ipaddr.IPv6

\* The maximal runs of colons of s, as <<first, last>> index pairs.
ColonRuns(s) ==
    LET Runs(starts, ends) ==
            {<<i, CHOOSE j \in ends :
                      j >= i /\ \A k \in ends : k >= i => j <= k>> :
                i \in starts}
    IN Runs({i \in 1..Len(s) : s[i] = ":" /\ (i = 1 \/ s[i - 1] # ":")},
            {j \in 1..Len(s) : s[j] = ":" /\ (j = Len(s) \/ s[j + 1] # ":")})

\* ipv6Regexes.native without a zone index:
\* /^(::)?((?:[0-9a-f]+::?)+)?([0-9a-f]+)?(::)?$/i.
NativeMatch(s) ==
    /\ AllIn(s, HexDigits \cup {":"})
    /\ \A r \in ColonRuns(s) :
          IF r[1] = 1 /\ r[2] = Len(s) THEN r[2] - r[1] + 1 \in {2, 4}
          ELSE IF r[1] = 1 THEN r[2] - r[1] + 1 = 2
          ELSE IF r[2] = Len(s) THEN r[2] - r[1] + 1 \in 1..4
          ELSE r[2] - r[1] + 1 \in 1..2

\* The group before the IPv4 tail in ipv6Regexes.transitional:
\* (?:[0-9a-f]+::?)+ or ::(?:[0-9a-f]+::?)*.
TransitionalPrefixMatch(p) ==
    /\ Len(p) >= 1
    /\ AllIn(p, HexDigits \cup {":"})
    /\ p[Len(p)] = ":"
    /\ \A r \in ColonRuns(p) :
          IF r[1] = 1 THEN r[2] - r[1] + 1 = 2 ELSE r[2] - r[1] + 1 \in 1..2

\* Four ipv4Part separated by dots.
FourIpv4Parts(t) ==
    LET Match(parts) == Len(parts) = 4 /\ \A i \in 1..4 : IsIpv4Part(parts[i])
    IN Match(Split(t, "."))

\* parseInt(text, 16) of a piece between colons: -1 for NaN.
HexPartValue(p) ==
    IF p = <<>> THEN -1 ELSE SmallValue(ParseBytes(p, 16))

\* The parts of a list of pieces, by parseInt(piece, 16).
RECURSIVE HexPartValues(_)
HexPartValues(ref) ==
    IF ref = <<>> THEN <<>>
    ELSE <<HexPartValue(Head(ref))>> \o HexPartValues(Tail(ref))

\* expandIPv6(string, parts): the parsed parts (-1 for NaN), or <<>> for null.
expandIPv6(s, parts) ==
    LET NoTail(t) == IF t # <<>> /\ t[Len(t)] = ":"
                     THEN SubSeq(t, 1, Len(t) - 1) ELSE t
        NoHead(t) == IF t # <<>> /\ Head(t) = ":" THEN Tail(t) ELSE t
        Replacement(count) ==
            <<":">> \o [i \in 1..(2 * count) |->
                           IF i % 2 = 1 THEN "0" ELSE ":"]
        ReplaceAt(k, replacement) ==
            SubSeq(s, 1, k - 1) \o replacement \o SubSeq(s, k + 2, Len(s))
        Expand(doubles, colonCount) ==
            IF Cardinality(doubles) > 1 \/ colonCount > parts THEN <<>>
            ELSE HexPartValues(Split(NoTail(NoHead(
                     IF doubles = {} THEN s
                     ELSE ReplaceAt(CHOOSE i \in doubles : TRUE,
                                    Replacement(parts - colonCount)))), ":"))
    IN Expand({i \in 1..(Len(s) - 1) : s[i] = ":" /\ s[i + 1] = ":"},
              Count(s, ":")
                 - (IF StartsWith(s, <<":", ":">>) THEN 1 ELSE 0)
                 - (IF EndsWith(s, <<":", ":">>) THEN 1 ELSE 0))

\* The IPv6 constructor's checks on a list of parts: eight parts, each in
\* 0..0xffff; the parts, or <<>> when it throws.
IPv6_construct(parts) ==
    IF Len(parts) = 8 /\ \A i \in 1..8 : parts[i] >= 0 /\ parts[i] <= 65535
    THEN parts ELSE <<>>

\* parseInt(text) of an ipv4Part, as the transitional branch calls it:
\* decimal, or hexadecimal after 0x; saturating above 0xffff.
ParseIntNoRadix(p) ==
    IF IsHexPart(p) THEN SmallValue(ParseBytes(SubSeq(p, 3, Len(p)), 16))
    ELSE SmallValue(ParseBytes(p, 10))

\* The transitional branch of IPv6.parser for a string with a colon in it.
IPv6_parseTransitional(s) ==
    LET Combine(six, o) ==
            IF six = <<>> \/ \E i \in 1..4 : o[i] > 255 THEN <<>>
            ELSE six \o <<o[1] * 256 + o[2], o[3] * 256 + o[4]>>
        Octets(t) == <<ParseIntNoRadix(t[1]), ParseIntNoRadix(t[2]),
                       ParseIntNoRadix(t[3]), ParseIntNoRadix(t[4])>>
        Addr(prefix) == IF EndsWith(prefix, <<":", ":">>) THEN prefix
                        ELSE SubSeq(prefix, 1, Len(prefix) - 1)
        Groups(prefix, tail) ==
            IF ~(TransitionalPrefixMatch(prefix) /\ FourIpv4Parts(tail))
            THEN <<>>
            ELSE Combine(expandIPv6(Addr(prefix), 6), Octets(Split(tail, ".")))
        SplitAt(k) == Groups(SubSeq(s, 1, k), SubSeq(s, k + 1, Len(s)))
    IN SplitAt(CHOOSE i \in 1..Len(s) :
                   s[i] = ":" /\ \A j \in (i + 1)..Len(s) : s[j] # ":")

\* IPv6.parser followed by the IPv6 constructor: the eight parts, or <<>>
\* when the parser returns null or the constructor throws.
IPv6_parser(s) ==
    IF Count(s, ":") = 0 THEN <<>>
    ELSE IF StartsWith(s, <<":", ":">>) /\ FourIpv4Parts(SubSeq(s, 3, Len(s)))
    THEN IPv6_construct(IPv6_parseTransitional(
             <<":", ":", "f", "f", "f", "f", ":">> \o SubSeq(s, 3, Len(s))))
    ELSE IF NativeMatch(s) THEN IPv6_construct(expandIPv6(s, 8))
    ELSE IPv6_construct(IPv6_parseTransitional(s))

\* IPv6.isValid: false without a colon, else whether parsing succeeds.
IPv6_isValid(s) == IPv6_parser(s) # <<>>

\* IPv6.prototype.toNormalizedString: the parts in hexadecimal, joined by
\* colons.
IPv6_toNormalizedString(parts) ==
    Join([i \in 1..Len(parts) |-> NatToHex(parts[i])], ":")

\* IPv6.prototype.toString (toRFC5952String): the normalized string with the
\* longest match of /((^|:)(0(:|$)){2,})/g, the first one among equals,
\* replaced by "::".  A match is a maximal run of two or more zero parts
\* from part a to part b, with the colon before it and the colon after
\* each of its parts.
IPv6_toString(parts) ==
    LET MatchLength(r) == (IF r[1] > 1 THEN 1 ELSE 0)
                          + 2 * (r[2] - r[1] + 1)
                          - (IF r[2] = 8 THEN 1 ELSE 0)
        Compress(best) ==
            IPv6_toNormalizedString(SubSeq(parts, 1, best[1] - 1))
            \o <<":", ":">>
            \o IPv6_toNormalizedString(SubSeq(parts, best[2] + 1, 8))
        Longest(runs) ==
            IF runs = {} THEN IPv6_toNormalizedString(parts)
            ELSE Compress(CHOOSE r \in runs : \A q \in runs :
                              \/ MatchLength(q) < MatchLength(r)
                              \/ (MatchLength(q) = MatchLength(r)
                                  /\ r[1] <= q[1]))
    IN Longest({r \in (1..8) \X (1..8) :
                   /\ r[1] < r[2]
                   /\ \A i \in r[1]..r[2] : parts[i] = 0
                   /\ (r[1] = 1 \/ parts[r[1] - 1] # 0)
                   /\ (r[2] = 8 \/ parts[r[2] + 1] # 0)})

\* The result the source expects of addr.mask(cidr) on an IPv6 address:
\* the address with every bit after the first cidr bits cleared.
IPv6_mask(parts, cidr) ==
    LET Clear(part, keep) == (part \div Pow2(16 - keep)) * Pow2(16 - keep)
        Part(i) == Clear(parts[i],
                         IF cidr - 16 * (i - 1) < 0 THEN 0
                         ELSE IF cidr - 16 * (i - 1) > 16 THEN 16
                         ELSE cidr - 16 * (i - 1))
    IN <<Part(1), Part(2), Part(3), Part(4),
         Part(5), Part(6), Part(7), Part(8)>>

\* ipaddr.isValid.
ipaddr_isValid(s) == IPv6_isValid(s) \/ IPv4_isValid(s)

\* ipaddr.parse(s).kind() for a string ipaddr.isValid accepts.
ipaddr_kind(s) == IF IPv6_isValid(s) THEN "ipv6" ELSE "ipv4"

\* The octets (ipv4) or parts (ipv6) of ipaddr.parse(s).
ipaddr_parse(s) ==
    LET Parsed(parts) == IF parts # <<>> THEN parts ELSE IPv4_parser(s)
    IN Parsed(IPv6_parser(s))

\* ------------------------------------------------------------ JavaScript

\* A subnet argument: a number or a string.
NumberValue(n) == [type |-> "number", n |-> n, s |-> <<>>]

StringValue(s) == [type |-> "string", n |-> 0, s |-> s]

\* !subnet: the number 0 and the empty string are falsy.
Falsy(v) == IF v.type = "number" THEN v.n = 0 ELSE v.s = <<>>

\* String(subnet).
ToJsString(v) == IF v.type = "number" THEN IntToString(v.n) ELSE v.s

IsDigits(s) == Len(s) >= 1 /\ AllIn(s, DecDigits)

\* An exponent part: e or E, an optional sign, digits.
IsExponent(s) ==
    /\ Len(s) >= 2
    /\ s[1] \in {"e", "E"}
    /\ IF s[2] \in {"+", "-"} THEN IsDigits(SubSeq(s, 3, Len(s)))
       ELSE IsDigits(Tail(s))

\* The index of the first character of s that is no decimal digit,
\* Len(s) + 1 when every character is one.
FirstNonDigit(s) ==
    LET First(nonDigits) ==
            IF nonDigits = {} THEN Len(s) + 1
            ELSE CHOOSE i \in nonDigits : \A j \in nonDigits : i <= j
    IN First({i \in 1..Len(s) : s[i] \notin DecDigits})

\* An unsigned StrDecimalLiteral over Alphabet: digits, an optional
\* fraction and an optional exponent, or a fraction that starts with the dot.
IsUnsignedDecimal(s) ==
    LET Fraction(k, afterDot, f) ==
            /\ (k > 1 \/ f > 1)
            /\ \/ f > Len(afterDot)
               \/ IsExponent(SubSeq(afterDot, f, Len(afterDot)))
        Literal(k, rest) ==
            IF rest = <<>> THEN k > 1
            ELSE IF Head(rest) = "."
            THEN Fraction(k, Tail(rest), FirstNonDigit(Tail(rest)))
            ELSE k > 1 /\ IsExponent(rest)
        From(k) == Literal(k, SubSeq(s, k, Len(s)))
    IN From(FirstNonDigit(s))

\* !isNaN(s) for a trimmed string over Alphabet: the empty string, a
\* signed decimal literal, or an unsigned 0x or 0b literal.
IsNumeric(s) ==
    \/ s = <<>>
    \/ IsHexPart(s)
    \/ /\ Len(s) >= 3
       /\ s[1] = "0"
       /\ s[2] \in {"b", "B"}
       /\ AllIn(SubSeq(s, 3, Len(s)), {"0", "1"})
    \/ IF s[1] \in {"+", "-"} THEN IsUnsignedDecimal(Tail(s))
       ELSE IsUnsignedDecimal(s)

\* parseInt(s, 10) of a trimmed string: <<isNaN, value>>, the value
\* saturating above 0xffff.
ParseInt10(s) ==
    LET Digits(body, k, sign) ==
            IF k = 1 THEN <<TRUE, 0>>
            ELSE <<FALSE,
                   sign * SmallValue(ParseBytes(SubSeq(body, 1, k - 1), 10))>>
        Signed(body, sign) == Digits(body, FirstNonDigit(body), sign)
    IN IF s # <<>> /\ s[1] \in {"+", "-"}
       THEN Signed(Tail(s), IF s[1] = "-" THEN -1 ELSE 1)
       ELSE Signed(s, 1)

\* ------------------------------------------------------------ ipUtils

validateIp(ip) == IPv6_isValid(ip) \/ IPv4_isValidFourPartDecimal(ip)

\* A getIpVersion that knows four-part decimal IPv4 only.
getIpVersion_Ipv4Only(ip) ==
    IF IPv4_isValidFourPartDecimal(ip) THEN "ipv4" ELSE "null"

getIpVersion(ip) == IF ipaddr_isValid(ip) THEN ipaddr_kind(ip) ELSE "null"

MaxCidr(ipVersion) == IF ipVersion = "ipv6" THEN 128 ELSE 32

\* A convertSubnetToCidr that falls back to the IPv6 rules for an invalid
\* reference address.
convertSubnetToCidr_DefaultIpv6(sub, ipForVersionDetection) ==
    LET Normalize(subnetString, ipVersion, cidr) ==
            IF /\ IsNumeric(subnetString)
               /\ ~cidr[1]
               /\ cidr[2] >= 0
               /\ cidr[2] <= MaxCidr(ipVersion)
            THEN cidr[2]
            ELSE IF ipVersion = "ipv4" /\ IPv4_isValid(subnetString)
            THEN IPv4_prefixLengthFromSubnetMask(IPv4_parser(subnetString))
            ELSE NULL
        Detect(subnetString, version) ==
            Normalize(subnetString,
                      IF version = "null" THEN "ipv6" ELSE version,
                      ParseInt10(subnetString))
    IN IF Falsy(sub) THEN NULL
       ELSE Detect(Trim(ToJsString(sub)), getIpVersion(ipForVersionDetection))

\* Normalize is the body after subnetString, ipVersion and the parseInt of
\* the numeric branch are known; a numeric string out of range falls
\* through to the dotted-decimal branch.
convertSubnetToCidr(sub, ipForVersionDetection) ==
    LET Normalize(subnetString, ipVersion, cidr) ==
            IF /\ IsNumeric(subnetString)
               /\ ~cidr[1]
               /\ cidr[2] >= 0
               /\ cidr[2] <= MaxCidr(ipVersion)
            THEN cidr[2]
            ELSE IF ipVersion = "ipv4" /\ IPv4_isValid(subnetString)
            THEN IPv4_prefixLengthFromSubnetMask(IPv4_parser(subnetString))
            ELSE NULL
        Detect(subnetString, version) ==
            Normalize(subnetString,
                      IF version = "null" THEN "ipv4" ELSE version,
                      ParseInt10(subnetString))
    IN IF Falsy(sub) THEN NULL
       ELSE Detect(Trim(ToJsString(sub)), getIpVersion(ipForVersionDetection))

validateSubnet(sub, ipAddress) == convertSubnetToCidr(sub, ipAddress) # NULL

\* An isSameSubnet that compares the whole addresses.
isSameSubnet_WholeAddress(a, b, sub) ==
    LET Compare(cidr) ==
            IF ~validateIp(a) \/ ~validateIp(b) \/ cidr = NULL THEN FALSE
            ELSE IF ipaddr_kind(a) # ipaddr_kind(b) THEN FALSE
            ELSE ipaddr_parse(a) = ipaddr_parse(b)
    IN Compare(convertSubnetToCidr(sub, a))

\* An isSameSubnet that does not validate its second address: ipaddr.parse
\* still throws on a string ipaddr.isValid rejects.
isSameSubnet_SecondUnchecked(a, b, sub) ==
    LET Compare(cidr) ==
            IF ~validateIp(a) \/ ~ipaddr_isValid(b) \/ cidr = NULL THEN FALSE
            ELSE IF ipaddr_kind(a) # ipaddr_kind(b) THEN FALSE
            ELSE matchCIDR(ipaddr_parse(a), ipaddr_parse(b),
                           IF ipaddr_kind(a) = "ipv4" THEN 8 ELSE 16, cidr, 1)
    IN Compare(convertSubnetToCidr(sub, a))

isSameSubnet(a, b, sub) ==
    LET Compare(cidr) ==
            IF ~validateIp(a) \/ ~validateIp(b) \/ cidr = NULL THEN FALSE
            ELSE IF ipaddr_kind(a) # ipaddr_kind(b) THEN FALSE
            ELSE matchCIDR(ipaddr_parse(a), ipaddr_parse(b),
                           IF ipaddr_kind(a) = "ipv4" THEN 8 ELSE 16, cidr, 1)
    IN Compare(convertSubnetToCidr(sub, a))

InvalidFormat == "Invalid IP or Subnet format."

IsNetworkAddress == "IP address cannot be the network address."

IsBroadcastAddress == "IP address cannot be the broadcast address."

InvalidMask == "Invalid subnet mask."

NoError == "null"

\* A checkIpAndSubnet that exempts only /32 from the network and
\* broadcast checks.
checkIpAndSubnet_Below32(ip, sub, maskDefined) ==
    LET Ipv4Host(cidr, network, broadcast) ==
            IF network = <<>> \/ broadcast = <<>> THEN InvalidMask
            ELSE IF ip = IPv4_toString(network) /\ cidr < 32
            THEN IsNetworkAddress
            ELSE IF ip = IPv4_toString(broadcast) /\ cidr < 32
            THEN IsBroadcastAddress
            ELSE NoError
        Ipv4(cidr, cidrStr) ==
            Ipv4Host(cidr, IPv4_networkAddressFromCIDR(cidrStr),
                     IPv4_broadcastAddressFromCIDR(cidrStr))
        Ipv6(cidr) ==
            IF ~maskDefined THEN InvalidMask
            ELSE IF /\ ip = IPv6_toString(IPv6_mask(ipaddr_parse(ip), cidr))
                    /\ cidr < 127
            THEN IsNetworkAddress
            ELSE NoError
        Check(cidr) ==
            IF ~validateIp(ip) \/ cidr = NULL THEN InvalidFormat
            ELSE IF ipaddr_kind(ip) = "ipv4"
            THEN Ipv4(cidr, ip \o <<"/">> \o IntToString(cidr))
            ELSE Ipv6(cidr)
    IN Check(convertSubnetToCidr(sub, ip))

\* maskDefined: whether the ipaddr.js of the build defines the mask method
\* that the IPv6 branch calls; without it the call throws a TypeError.
\* Ipv4 and Ipv6 are the two branches of the try block, Ipv4Host the
\* comparisons of the IPv4 branch.
checkIpAndSubnet(ip, sub, maskDefined) ==
    LET Ipv4Host(cidr, network, broadcast) ==
            IF network = <<>> \/ broadcast = <<>> THEN InvalidMask
            ELSE IF ip = IPv4_toString(network) /\ cidr < 31
            THEN IsNetworkAddress
            ELSE IF ip = IPv4_toString(broadcast) /\ cidr < 31
            THEN IsBroadcastAddress
            ELSE NoError
        Ipv4(cidr, cidrStr) ==
            Ipv4Host(cidr, IPv4_networkAddressFromCIDR(cidrStr),
                     IPv4_broadcastAddressFromCIDR(cidrStr))
        Ipv6(cidr) ==
            IF ~maskDefined THEN InvalidMask
            ELSE IF /\ ip = IPv6_toString(IPv6_mask(ipaddr_parse(ip), cidr))
                    /\ cidr < 127
            THEN IsNetworkAddress
            ELSE NoError
        Check(cidr) ==
            IF ~validateIp(ip) \/ cidr = NULL THEN InvalidFormat
            ELSE IF ipaddr_kind(ip) = "ipv4"
            THEN Ipv4(cidr, ip \o <<"/">> \o IntToString(cidr))
            ELSE Ipv6(cidr)
    IN Check(convertSubnetToCidr(sub, ip))


\* ------------------------------------------------------------ inputs

\* The largest prefix length given as a number or as its decimal string.
MaxSubnetNumber == 130

\* The third octets of the generated hosts 192.168.t.h.
MaxThirdOctet == 2

HostOctets == {0, 1, 100, 255}

GeneratedHosts ==
    {IPv4_toString(<<192, 168, t, h>>) : t \in 1..MaxThirdOctet, h \in HostOctets}

\* Four-part decimal IPv4 addresses at the edges of networks.
OtherIpv4 ==
    { <<"1", "0", ".", "0", ".", "0", ".", "0">>,
      <<"1", "0", ".", "0", ".", "0", ".", "1">>,
      <<"0", ".", "0", ".", "0", ".", "0">>,
      <<"2", "5", "5", ".", "2", "5", "5", ".", "2", "5", "5", ".", "2", "5", "5">> }

\* IPv4 forms ipaddr.IPv4.isValid accepts that are not four-part decimal.
LenientIpv4 ==
    { <<"1", "9", "2", ".", "1", "6", "8", ".", "1">>,
      <<"0", "x", "c", "0", ".", "0", "x", "a", "8", ".", "1", ".", "1">> }

\* Strings that are no address.
InvalidIps ==
    { <<"2", "5", "6", ".", "2", "5", "6", ".", "2", "5", "6", ".", "2", "5", "6">>,
      <<"z", "z", " ", "z">>,
      <<>>,
      <<"1", ":", ":", "2", ":", ":", "3">> }

\* IPv6 addresses: compressed, uncompressed, with leading zeros, upper case,
\* with an embedded IPv4 address.
Ipv6Ips ==
    { <<":", ":", "1">>,
      <<"2", "0", "0", "1", ":", "d", "b", "8", ":", ":">>,
      <<"2", "0", "0", "1", ":", "0", "d", "b", "8", ":", ":">>,
      <<"2", "0", "0", "1", ":", "D", "B", "8", ":", ":">>,
      <<"2", "0", "0", "1", ":", "d", "b", "8", ":", "0", ":", "0", ":", "0", ":", "0", ":", "0", ":", "0">>,
      <<"2", "0", "0", "1", ":", "d", "b", "8", ":", ":", "1">>,
      <<"2", "0", "0", "1", ":", "0", "d", "b", "8", ":", "8", "5", "a", "3", ":", "0", "0", "0", "0", ":", "0", "0", "0", "0", ":", "8", "a", "2", "e", ":", "0", "3", "7", "0", ":", "7", "3", "3", "4">>,
      <<":", ":", "f", "f", "f", "f", ":", "1", "9", "2", ".", "1", "6", "8", ".", "1", ".", "1">>,
      <<"f", "f", "f", "f", ":", "f", "f", "f", "f", ":", "f", "f", "f", "f", ":", "f", "f", "f", "f", ":", "f", "f", "f", "f", ":", "f", "f", "f", "f", ":", "f", "f", "f", "f", ":", "f", "f", "f", "f">>,
      <<"0", ":", "0", ":", "1", ":", "0", ":", "0", ":", "1", ":", "1", ":", "1">> }

Ips == GeneratedHosts \cup OtherIpv4 \cup LenientIpv4 \cup InvalidIps \cup Ipv6Ips

\* The second address of isSameSubnet.
SecondIps ==
    { <<"1", "9", "2", ".", "1", "6", "8", ".", "1", ".", "1", "0", "0">>,
      <<"2", "0", "0", "1", ":", "D", "B", "8", ":", ":", "1">>,
      <<"1", "9", "2", ".", "1", "6", "8", ".", "1">>,
      <<"z", "z", " ", "z">> }

SubnetNumbers == (-2)..MaxSubnetNumber

\* The dotted-decimal masks of every prefix length.
ContiguousMasks ==
    {IPv4_toString(IPv4_subnetMaskFromPrefixLength(n)) : n \in 0..32}

\* Other subnet strings: malformed, padded, and the numeric forms of
\* JavaScript that are not plain decimal.
OtherSubnetStrings ==
    { <<"2", "5", "5", ".", "0", ".", "2", "5", "5", ".", "0">>,
      <<"2", "5", "5", ".", "2", "5", "5", ".", "2", "5", "5", ".", "2", "5", "6">>,
      <<"z", "z", " ", "z">>,
      <<" ">>,
      <<" ", "2", "4", " ">>,
      <<"2", "5", "5", ".", "2", "5", "5", ".", "2", "5", "5", ".", "0", " ">>,
      <<"4", "2", "9", "4", "9", "6", "7", "0", "4", "0">>,
      <<"4", "2", "9", "4", "9", "6", "7", "2", "9", "5">>,
      <<"4", "2", "9", "4", "9", "6", "7", "2", "9", "6">>,
      <<"2", "1", "4", "7", "4", "8", "3", "6", "4", "8">>,
      <<"0", "x", "f", "f", ".", "0", ".", "0", ".", "0">>,
      <<"0", "3", "7", "7", ".", "0", ".", "0", ".", "0">>,
      <<"2", "5", "5", ".", "2", "5", "5", ".", "0">>,
      <<"2", "5", "5", ".", "0">>,
      <<"0", "x", "1", "8">>,
      <<"0", "x", "f", "f", "f", "f", "f", "f", "0", "0">>,
      <<"0", "b", "1", "1">>,
      <<"1", "e", "1">>,
      <<"2", "4", ".", "0">>,
      <<"2", "4", ".", "5">>,
      <<".", "5">>,
      <<"-", "0">>,
      <<"+", "2", "4">>,
      <<"0", "2", "4">>,
      <<"1", ".", "2", ".", "3", ".", "4">>,
      <<":", ":">>,
      <<"f", "f", "f", "f", ":", ":">>,
      <<"2", "4", "/">> }

Subnets ==
    {NumberValue(n) : n \in SubnetNumbers}
    \cup {StringValue(IntToString(n)) : n \in SubnetNumbers}
    \cup {StringValue(s) : s \in ContiguousMasks \cup OtherSubnetStrings \cup {<<>>}}

\* ------------------------------------------------------------ calls

NoResult == "none"

\* The arguments of one call: an address and a subnet.  ip2 is the second
\* address of an isSameSubnet call and hasMask the build's answer in a
\* checkIpAndSubnet call; cidrOut is the call's local cidr.
Init ==
    /\ ip1 \in Ips
    /\ subnet \in Subnets
    /\ ip2 = <<>>
    /\ hasMask = FALSE
    /\ op = "init"
    /\ result = NoResult
    /\ cidrOut = NULL

ValidateIp ==
    /\ op = "init"
    /\ op' = "validateIp"
    /\ result' = validateIp(ip1)
    /\ cidrOut' = NULL
    /\ UNCHANGED <<ip1, ip2, subnet, hasMask>>

GetIpVersion ==
    /\ op = "init"
    /\ op' = "getIpVersion"
    /\ result' = getIpVersion(ip1)
    /\ cidrOut' = NULL
    /\ UNCHANGED <<ip1, ip2, subnet, hasMask>>

ValidateSubnet ==
    /\ op = "init"
    /\ op' = "validateSubnet"
    /\ result' = validateSubnet(subnet, ip1)
    /\ cidrOut' = convertSubnetToCidr(subnet, ip1)
    /\ UNCHANGED <<ip1, ip2, subnet, hasMask>>

IsSameSubnet ==
    /\ op = "init"
    /\ \E second \in SecondIps \cup {ip1} :
          /\ ip2' = second
          /\ result' = isSameSubnet(ip1, second, subnet)
    /\ op' = "isSameSubnet"
    /\ cidrOut' = convertSubnetToCidr(subnet, ip1)
    /\ UNCHANGED <<ip1, subnet, hasMask>>

\* The build's ipaddr.js either defines the mask method or does not.
CheckIpAndSubnet ==
    /\ op = "init"
    /\ \E maskDefined \in BOOLEAN :
          /\ hasMask' = maskDefined
          /\ result' = checkIpAndSubnet(ip1, subnet, maskDefined)
    /\ op' = "checkIpAndSubnet"
    /\ cidrOut' = convertSubnetToCidr(subnet, ip1)
    /\ UNCHANGED <<ip1, ip2, subnet>>

Next ==
    \/ ValidateIp
    \/ GetIpVersion
    \/ ValidateSubnet
    \/ IsSameSubnet
    \/ CheckIpAndSubnet

Spec == Init /\ [][Next]_vars

\* ------------------------------------------------------------ properties

\* The bits of an address, most significant first, from its octets
\* (partSize 8) or parts (partSize 16).
AddrBits(parts, partSize) ==
    [k \in 1..(partSize * Len(parts)) |->
        (parts[(k - 1) \div partSize + 1]
            \div Pow2(partSize - 1 - ((k - 1) % partSize))) % 2]

\* The bits of the address a string denotes.
BitsOf(ip) ==
    AddrBits(ipaddr_parse(ip), IF ipaddr_kind(ip) = "ipv4" THEN 8 ELSE 16)

\* The address has every bit after the first n bits equal to b.
HostBitsAll(ip, n, b) ==
    \A k \in (n + 1)..Len(BitsOf(ip)) : BitsOf(ip)[k] = b

IsIpv4Address(ip) == IPv4_isValidFourPartDecimal(ip)

IsIpv6Address(ip) == IPv6_isValid(ip)

\* The subnet is the integer n or the decimal string of n.
IsPrefixLength(sub, n) ==
    \/ sub = NumberValue(n)
    \/ sub = StringValue(IntToString(n))

\* A dotted-decimal string: four decimal numbers of at most 255, without
\* leading zeros, separated by dots.
IsDottedDecimal(s) ==
    LET parts == Split(s, ".")
    IN /\ Len(parts) = 4
       /\ \A i \in 1..4 :
             /\ IsPlainDecimal(parts[i])
             /\ SmallValue(ParseBytes(parts[i], 10)) <= 255

\* The 32 bits of a dotted-decimal string.
DottedBits(s) ==
    AddrBits([i \in 1..4 |-> SmallValue(ParseBytes(Split(s, ".")[i], 10))], 8)

\* The bits are n ones followed by zeros.
IsOnesThenZeros(bits, n) ==
    \A k \in 1..Len(bits) : bits[k] = (IF k <= n THEN 1 ELSE 0)

\* C1: validateSubnet(cidr, ip) is true for every prefix length in 0..32
\* with an IPv4 ip and in 0..128 with an IPv6 ip, as an integer (0
\* included) and as its decimal string.
C1_EveryPrefixLengthInRangeIsValid ==
    (/\ op = "validateSubnet"
     /\ validateIp(ip1)
     /\ \E n \in 0..MaxCidr(ipaddr_kind(ip1)) : IsPrefixLength(subnet, n))
    => result = TRUE

\* C2: a numeric subnet (an integer, or a string of decimal digits) whose
\* value is negative or above maxCidr normalizes to null and is not a valid
\* subnet, whatever the dotted-decimal branch makes of it.
C2_NumericOutOfRangeIsRejected ==
    (/\ op = "validateSubnet"
     /\ \/ /\ subnet.type = "number"
           /\ (subnet.n < 0 \/ subnet.n > MaxCidr(getIpVersion(ip1)))
        \/ /\ subnet.type = "string"
           /\ IsDigits(subnet.s)
           /\ SmallValue(ParseBytes(subnet.s, 10)) > MaxCidr(getIpVersion(ip1)))
    => (cidrOut = NULL /\ result = FALSE)

\* What C3 says checkIpAndSubnet returns for an IPv4 address and a prefix
\* length.
Ipv4HostVerdict(ip, cidr) ==
    IF cidr < 31 /\ HostBitsAll(ip, cidr, 0) THEN IsNetworkAddress
    ELSE IF cidr < 31 /\ HostBitsAll(ip, cidr, 1) THEN IsBroadcastAddress
    ELSE NoError

\* C3: for a four-part IPv4 ip and a subnet that normalizes to a prefix
\* length, checkIpAndSubnet returns the network message iff cidr < 31 and
\* the host bits of ip are all zero, else the broadcast message iff
\* cidr < 31 and the host bits are all one, else null.
C3_Ipv4NetworkAndBroadcastAreRejected ==
    (/\ op = "checkIpAndSubnet"
     /\ IsIpv4Address(ip1)
     /\ cidrOut # NULL)
    => result = Ipv4HostVerdict(ip1, cidrOut)

C3_Witness ==
    /\ op = "checkIpAndSubnet"
    /\ IsIpv4Address(ip1)
    /\ subnet = StringValue(IPv4_toString(<<255, 255, 255, 0>>))
    /\ cidrOut = 24
    /\ HostBitsAll(ip1, 24, 1)
    /\ result = IsBroadcastAddress

\* C4: for an IPv6 ip in any textual form, checkIpAndSubnet returns the
\* network message when cidr <= 126 and the bits of ip after the first
\* cidr bits are zero, null when cidr is 127 or 128, and never the
\* broadcast message.
C4_Ipv6NetworkAddressIsRejected ==
    (/\ op = "checkIpAndSubnet"
     /\ IsIpv6Address(ip1)
     /\ cidrOut # NULL)
    => /\ (cidrOut <= 126 /\ HostBitsAll(ip1, cidrOut, 0))
             => result = IsNetworkAddress
       /\ cidrOut >= 127 => result = NoError
       /\ result # IsBroadcastAddress

\* C5: isSameSubnet is false when either address is invalid, the subnet
\* does not normalize for the first address, or the families differ;
\* otherwise it is true iff the first cidr bits of the addresses agree.
C5_SameSubnetIsPrefixEquality ==
    op = "isSameSubnet"
    => result =
         IF \/ ~validateIp(ip1)
            \/ ~validateIp(ip2)
            \/ cidrOut = NULL
            \/ ipaddr_kind(ip1) # ipaddr_kind(ip2)
         THEN FALSE
         ELSE SubSeq(BitsOf(ip1), 1, cidrOut) = SubSeq(BitsOf(ip2), 1, cidrOut)

C5_Witness ==
    /\ op = "isSameSubnet"
    /\ validateIp(ip1)
    /\ validateIp(ip2)
    /\ ipaddr_kind(ip1) = ipaddr_kind(ip2)
    /\ cidrOut = 25
    /\ ipaddr_parse(ip1) # ipaddr_parse(ip2)
    /\ result = TRUE

\* A valid subnet specifier for the family of ip: a prefix length in range
\* as integer or decimal string, or for IPv4 a contiguous dotted-decimal
\* mask.
IsValidSpecifierFor(sub, ip) ==
    \/ \E n \in 0..MaxCidr(ipaddr_kind(ip)) : IsPrefixLength(sub, n)
    \/ /\ ipaddr_kind(ip) = "ipv4"
       /\ sub.type = "string"
       /\ sub.s \in ContiguousMasks

\* C6: isSameSubnet(ip, ip, subnet) is true for every valid ip and every
\* valid subnet specifier of its family.
C6_SameSubnetIsReflexive ==
    (/\ op = "isSameSubnet"
     /\ ip2 = ip1
     /\ validateIp(ip1)
     /\ IsValidSpecifierFor(subnet, ip1))
    => result = TRUE

\* C7: a string validateIp accepts has a version: getIpVersion returns
\* ipv4 or ipv6 for it, never null.
C7_ValidIpHasVersion ==
    (op = "getIpVersion" /\ validateIp(ip1)) => result \in {"ipv4", "ipv6"}

\* The converse fails: the shorthand 192.168.1 has version ipv4 and is
\* not a valid ip.
C7_Witness ==
    /\ op = "getIpVersion"
    /\ ip1 = <<"1", "9", "2", ".", "1", "6", "8", ".", "1">>
    /\ result = "ipv4"
    /\ ~validateIp(ip1)

\* C8: with an IPv4 reference ip a non-numeric subnet normalizes to n iff
\* it is a dotted-decimal string whose bits are n ones followed by zeros,
\* and to null otherwise; with an IPv6 reference ip it normalizes to null.
C8_NonNumericSubnetIsDottedDecimalMask ==
    (/\ op = "validateSubnet"
     /\ validateIp(ip1)
     /\ subnet.type = "string"
     /\ subnet.s # <<>>
     /\ ~IsNumeric(Trim(subnet.s)))
    => IF ipaddr_kind(ip1) = "ipv4" /\ IsDottedDecimal(Trim(subnet.s))
       THEN \A n \in 0..32 :
               cidrOut = n <=> IsOnesThenZeros(DottedBits(Trim(subnet.s)), n)
       ELSE cidrOut = NULL

\* C9: with a reference ip that getIpVersion rejects, validateSubnet
\* answers as it does for a valid IPv4 address: prefix lengths 1..32 and
\* contiguous masks are valid, 33..128 are not; isSameSubnet is false and
\* checkIpAndSubnet reports the invalid format.
C9_InvalidReferenceIpUsesIpv4Rules ==
    getIpVersion(ip1) = "null"
    => /\ op = "validateSubnet"
          => /\ \A ip \in GeneratedHosts \cup OtherIpv4 :
                   result = validateSubnet(subnet, ip)
             /\ (\E n \in 1..32 : IsPrefixLength(subnet, n)) => result = TRUE
             /\ (subnet.type = "string" /\ subnet.s \in ContiguousMasks)
                   => result = TRUE
             /\ (\E n \in 33..128 : IsPrefixLength(subnet, n))
                   => result = FALSE
       /\ op = "isSameSubnet" => result = FALSE
       /\ op = "checkIpAndSubnet" => result = InvalidFormat

C9_Witness ==
    /\ op = "validateSubnet"
    /\ getIpVersion(ip1) = "null"
    /\ subnet = NumberValue(32)
    /\ cidrOut = 32
    /\ result = TRUE

\* C10: isSameSubnet(ip1, ip2, subnet) = isSameSubnet(ip2, ip1, subnet).
C10_SameSubnetIsSymmetric ==
    op = "isSameSubnet" => result = isSameSubnet(ip2, ip1, subnet)

\* The subnet normalizes for the first address and not for the second.
C10_Witness ==
    /\ op = "isSameSubnet"
    /\ validateIp(ip1)
    /\ validateIp(ip2)
    /\ cidrOut # NULL
    /\ convertSubnetToCidr(subnet, ip2) = NULL
    /\ result = FALSE

====
